---- MODULE Spec2Model ----
(***************************************************************************)
(* The request pipeline of the Api class (src/src/core.ts): service        *)
(* resolution, token cache, the transport's request/response hooks, the    *)
(* 401 sign-out path and the 5xx retry loop.                               *)
(*                                                                         *)
(* A request is split at the points where the code suspends on a           *)
(* collaborator: the session provider, the transport, the sign-out         *)
(* handler and the retry timer.  Everything between two such points is one *)
(* action.  The transport, the session provider, the sign-out handler and  *)
(* the user's onRequest interceptor are nondeterministic.                  *)
(***************************************************************************)
EXTENDS Integers, Sequences, FiniteSets, TLC

(* ------------------------------ bounds -------------------------------- *)

\* largest maxRetries a caller passes explicitly (constructor or updateConfig)
MaxRetriesOpt == 1

(* ------------------------- program constants -------------------------- *)

\* options.maxRetries ?? 3
DefaultMaxRetries == 3

\* error.response.status >= 500
ServerErrorFloor == 500

\* error.response?.status === 401, and AuthenticationError's status
Unauthorized == 401

(* ------------------------------ domains ------------------------------- *)

\* the request slots of the instance under study; a settled slot is reused by
\* the next request
Req == {"r1"}

Tokens == {"t1", "t2"}

\* this.currentToken = null
Null == "null"

\* no Authorization header on the request
Absent == "absent"

\* what one call of the session provider does: a session carrying a token,
\* no session, a session without a credential, or a rejection
SessionResults == Tokens \cup {"null", "nocred", "throw"}

\* what the transport answers: 0 stands for a failure without a response
\* (network error, timeout), which still carries the request's config
Statuses == {0, 200, 400, 401, 500}

\* the names a caller may pass as `service`
ServiceNames == {"public", "private", "service_1"}

BaseUrl == "u0"

Svc(n, u, a) == [name |-> n, url |-> u, enableAuth |-> a]

\* options.services as the caller may write it (an object literal: keys in
\* order); << >> is "no services option"
CallerServices ==
  { << >>,
    << Svc("public", "u1", "false"), Svc("private", "u2", "true"),
       Svc("service_1", "u1", "true") >>,
    << Svc("public", "u1", "false"), Svc("private", "u2", "true"),
       Svc("service_1", "u2", "false") >>,
    << Svc("public", "u1", "undefined"), Svc("private", "u1", "undefined") >> }

\* the constructor options: enableAuth as written by the caller, whether
\* getSession / signOut were passed, maxRetries (<< >> when omitted)
Options ==
  [ enableAuth : {"true", "false", "undefined"},
    getSession : BOOLEAN,
    signOut    : BOOLEAN,
    maxRetries : {<< >>} \cup {<<n>> : n \in 0..MaxRetriesOpt},
    services   : CallerServices ]

VARIABLES
  hooks,         \* the transport hooks were installed by the constructor
  config,        \* this.config
  currentToken,  \* this.currentToken
  req,           \* the requests: position, request object, what was observed
  tokCall,       \* a direct getCurrentToken() call of the caller
  cleared,       \* clearToken() ran and the cache was not written since
  call           \* a call studied on its own: its arguments and its result

vars == << hooks, config, currentToken, req, tokCall, cleared, call >>

(* --------------------------- pure helpers ----------------------------- *)

\* JS truthiness of an optional boolean
Truthy(b) == b = "true"

\* the header value without the scheme's separating space
Bearer_NoSpace(t) == "Bearer" \o t

\* `Bearer ${token}`
Bearer(t) == "Bearer " \o t

Names(s) == { s[i].name : i \in 1..Len(s) }

\* { public: .., private: .., ...options.services }: a caller's entry
\* replaces the default of the same name as a whole and keeps its place;
\* new names follow in the caller's order
SpreadServices(defaults, caller) ==
  LET over(e) == IF e.name \in Names(caller)
                 THEN caller[CHOOSE j \in 1..Len(caller) : caller[j].name = e.name]
                 ELSE e
      IsNew(e) == e.name \notin Names(defaults)
  IN  [ i \in 1..Len(defaults) |-> over(defaults[i]) ] \o SelectSeq(caller, IsNew)

DefaultServices(baseUrl) ==
  << Svc("public", baseUrl, "false"), Svc("private", baseUrl, "true") >>

\* a lookup that falls back on the `private` entry for a name that is no key
ServiceEntry_Fallback(services, n) ==
  IF n \in Names(services) THEN SelectSeq(services, LAMBDA e : e.name = n)
  ELSE SelectSeq(services, LAMBDA e : e.name = "private")

\* `Service '${service}' not found in configuration`
ServiceNotFoundMessage(n) == "Service '" \o n \o "' not found in configuration"

\* the class of the error a request's promise rejects with
ErrorClass(how) ==
  CASE how \in {"ApiError", "ServiceNotFound"} -> "ApiError"
    [] how = "AuthenticationError" -> "AuthenticationError"
    [] OTHER -> "Error"

\* this.config.services[service]: << >> when the name is not a key
ServiceEntry(services, n) ==
  SelectSeq(services, LAMBDA e : e.name = n)

\* getServiceByUrl: the first entry, in key order, whose url is `url`
getServiceByUrl(services, url) ==
  LET hits == { i \in 1..Len(services) : services[i].url = url }
  IN  IF hits = {} THEN << >>
      ELSE << services[CHOOSE i \in hits : \A j \in hits : i <= j] >>

\* accessToken taken as it is whenever there is a session
AccessToken_AnySession(res) == IF res \in Tokens \cup {"nocred"} THEN res ELSE Null

\* session?.accessToken || null
AccessToken(res) == IF res \in Tokens THEN res ELSE Null

\* what the provider in place may do (the default one resolves to null)
ProviderResults(fn) == IF fn = "default" THEN {"null"} ELSE SessionResults

\* what the sign-out handler in place may do (the default one only logs)
SignOutResults(fn) == IF fn = "default" THEN {TRUE} ELSE BOOLEAN

\* the validation that asks for the session provider only
ConstructorThrows_SessionOnly(o) == Truthy(o.enableAuth) /\ ~o.getSession

\* the constructor's validation of the auth hooks
ConstructorThrows(o) ==
  Truthy(o.enableAuth) /\ (~o.getSession \/ ~o.signOut)

\* this.config as the constructor builds it
Construct(o) ==
  [ baseUrl    |-> BaseUrl,
    enableAuth |-> IF o.enableAuth = "undefined" THEN TRUE ELSE Truthy(o.enableAuth),
    maxRetries |-> IF o.maxRetries = << >> THEN DefaultMaxRetries ELSE o.maxRetries[1],
    services   |-> SpreadServices(DefaultServices(BaseUrl), o.services),
    getSession |-> IF o.getSession THEN "user" ELSE "default",
    signOut    |-> IF o.signOut THEN "user" ELSE "default" ]

(* ------------------------------- state -------------------------------- *)

\* a request before it is issued.  `service` .. `retryCount` are the request
\* object; `attempts` .. `error` are what the collaborators and the caller
\* observed of it; `sure` .. `provided` record the conditions it ran under
NewRequest ==
  [ pc            |-> "idle",
    service       |-> "private",
    baseURL       |-> "",
    Authorization |-> Absent,
    retryCount    |-> 0,
    attempts      |-> 0,       \* transport invocations
    reqCalls      |-> 0,       \* onRequest invocations
    respCalls     |-> 0,       \* onResponse invocations
    errCalls      |-> 0,       \* onRequestError invocations
    signOuts      |-> 0,       \* signOut invocations
    lastStatus    |-> << >>,   \* status of the last transport answer, if any
    outcome       |-> "none",
    error         |-> [status |-> 0, code |-> ""],
    message       |-> "",      \* message of the error thrown by getServiceConfig
    sure          |-> Null,    \* the token cached, with auth enabled, from the
                               \* call of request() until now without a change
    maxRetries0   |-> 0,       \* config.maxRetries when it was issued
    off           |-> FALSE,   \* auth was disabled when request() was called
                               \* and has stayed so
    provided      |-> "none" ] \* what the provider just answered to it

\* a direct getCurrentToken() call: `result` is what it resolved to,
\* `provided` what the provider answered to it ("none": not asked),
\* `afterClear` that it was made with auth enabled after a clearToken() that
\* no cache write had followed, `fn` the provider function it invoked
IdleTokCall ==
  [pc |-> "idle", result |-> Null, provided |-> "none", afterClear |-> FALSE, fn |-> "none"]

\* no call is studied on its own
NoCall == [op |-> "none"]

Init ==
  /\ \E o \in Options :
       /\ ~ConstructorThrows(o)
       /\ o.getSession = o.signOut
       /\ config = Construct(o)
       /\ hooks = Construct(o).enableAuth
  /\ currentToken = Null
  /\ req = [r \in Req |-> NewRequest]
  /\ tokCall = IdleTokCall
  /\ cleared = FALSE
  /\ call = NoCall

\* bookkeeping: the requests in flight when the token cache or enableAuth
\* takes the value it did not have
Disturb(rq, changed) ==
  [ r \in DOMAIN rq |->
      IF changed THEN [rq[r] EXCEPT !.sure = Null] ELSE rq[r] ]

(* ------------------------- the request pipeline ----------------------- *)

\* the caller's promise settles
Settle(rec, how, st, code) ==
  [rec EXCEPT !.pc = "done", !.outcome = how, !.error = [status |-> st, code |-> code],
              !.sure = Null, !.provided = "none", !.off = FALSE]

\* the transport's adapter is invoked with the request
Dispatch(rec) ==
  [rec EXCEPT !.pc = "sent", !.attempts = @ + 1]

\* new AuthenticationError(..): super(message, 401, 'AUTHENTICATION_ERROR')
AuthenticationError(rec) ==
  Settle(rec, "AuthenticationError", Unauthorized, "AUTHENTICATION_ERROR")

\* createApiError: status is the response's status when there is a response
createApiError(rec, st) ==
  Settle(rec, "ApiError", st, "TRANSPORT_CODE")

\* the response hook's branch for an error that carries no request config:
\* onResponse runs on an empty shell and the error is passed on as it is
NoConfigBranch(rec, how) ==
  Settle([rec EXCEPT !.respCalls = @ + 1], how, 0, "")

\* the request hook: onRequest, then the reverse lookup of the service by
\* the request's baseURL and the token it may attach.  `tok` is the token
\* cache as the hook finds it, `h` what the user's onRequest does.  An
\* onRequest that throws rejects the chain with an error that has no
\* config, which the response hook receives.
RequestHook(rec, tok, h) ==
  LET called == [rec EXCEPT !.reqCalls = @ + 1]
      svc    == getServiceByUrl(config.services, rec.baseURL)
  IN  IF h = "throw" THEN NoConfigBranch(called, "InterceptorError")
      ELSE IF svc # << >> /\ Truthy(svc[1].enableAuth)
      THEN IF ~config.enableAuth THEN Dispatch(called)
           ELSE IF tok # Null
           THEN Dispatch([called EXCEPT !.Authorization = Bearer(tok)])
           ELSE [called EXCEPT !.pc = "sessionB"]
      ELSE Dispatch(called)

\* the request hook runs whether or not the constructor installed the hooks
executeRequest_AlwaysHooked(rec, tok, h) == RequestHook(rec, tok, h)

\* executeRequest hands the request to the transport instance: through the
\* request hook when the constructor installed the hooks
executeRequest(rec, tok, h) ==
  IF hooks THEN RequestHook(rec, tok, h) ELSE Dispatch(rec)

\* the test for attaching the token that looks at the service only
NeedsToken_ServiceOnly(entry) == Truthy(entry.enableAuth)

\* getServiceConfig's test for attaching the token
NeedsToken(entry) == Truthy(entry.enableAuth) /\ config.enableAuth

\* request(): getServiceConfig up to its first suspension.  An unknown
\* service fails at once; an auth service takes the cached token or calls
\* the session provider.
Issue(r, s) ==
  /\ req[r].pc \in {"idle", "done"}
  /\ LET e     == ServiceEntry(config.services, s)
         fresh == [NewRequest EXCEPT !.service = s,
                     !.sure = IF config.enableAuth THEN currentToken ELSE Null,
                     !.maxRetries0 = config.maxRetries,
                     !.off = ~config.enableAuth]
     IN  IF e = << >>
         THEN req' = [req EXCEPT ![r] =
                [Settle(fresh, "ServiceNotFound", 0, "")
                   EXCEPT !.message = ServiceNotFoundMessage(s)]]
         ELSE LET base == [fresh EXCEPT !.baseURL = e[1].url]
              IN  IF NeedsToken(e[1])
                  THEN IF currentToken # Null
                       THEN req' = [req EXCEPT ![r] =
                              [base EXCEPT !.pc = "queued",
                                           !.Authorization = Bearer(currentToken)]]
                       ELSE req' = [req EXCEPT ![r] = [base EXCEPT !.pc = "sessionA"]]
                  ELSE req' = [req EXCEPT ![r] = [base EXCEPT !.pc = "queued"]]
  /\ UNCHANGED << call, hooks, config, currentToken, tokCall, cleared >>

\* a fetch that caches its token only when the cache is still empty
TokenAfterFetch_FirstWins(res) ==
  IF currentToken # Null THEN currentToken
  ELSE IF AccessToken(res) # Null THEN AccessToken(res) ELSE currentToken

\* getCurrentToken after the provider settled: a truthy token is cached
TokenAfterFetch(res) ==
  IF AccessToken(res) # Null THEN AccessToken(res) ELSE currentToken

\* the provider call made by getServiceConfig settles
SessionReturnA(r, res) ==
  /\ req[r].pc = "sessionA"
  /\ res \in ProviderResults(config.getSession)
  /\ currentToken' = TokenAfterFetch(res)
  /\ cleared' = (cleared /\ currentToken' = currentToken)
  /\ LET tok  == AccessToken(res)
         got  == [req[r] EXCEPT !.pc = "queued", !.provided = res,
                                !.Authorization = IF tok # Null THEN Bearer(tok) ELSE @]
     IN  req' = Disturb([req EXCEPT ![r] = got], currentToken' # currentToken)
  /\ UNCHANGED << call, hooks, config, tokCall >>

\* getServiceConfig returned: the request is handed to the transport
\* instance
Handoff(r, h) ==
  /\ req[r].pc = "queued"
  /\ req' = [req EXCEPT ![r] =
               executeRequest([req[r] EXCEPT !.provided = "none"], currentToken, h)]
  /\ UNCHANGED << call, hooks, config, currentToken, tokCall, cleared >>

\* the provider call made by the request hook settles; the request is
\* dispatched
SessionReturnB(r, res) ==
  /\ req[r].pc = "sessionB"
  /\ res \in ProviderResults(config.getSession)
  /\ currentToken' = TokenAfterFetch(res)
  /\ cleared' = (cleared /\ currentToken' = currentToken)
  /\ LET tok == AccessToken(res)
         got == [req[r] EXCEPT !.provided = res,
                               !.Authorization = IF tok # Null THEN Bearer(tok) ELSE @]
     IN  req' = Disturb([req EXCEPT ![r] = Dispatch(got)], currentToken' # currentToken)
  /\ UNCHANGED << call, hooks, config, tokCall >>

\* axios' validateStatus
IsSuccess(st) == st >= 200 /\ st < 300

\* error.response?.status && status >= 500 && (_retryCount ?? 0) < maxRetries
ShouldRetry(st, retryCount, maxRetries) ==
  st # 0 /\ st >= ServerErrorFloor /\ retryCount < maxRetries

\* the response hook, on the transport's answer `st`
ResponseHook(rec, st) ==
  IF IsSuccess(st)
  THEN Settle([rec EXCEPT !.respCalls = @ + 1], "success", st, "")
  ELSE IF st = Unauthorized
  THEN [rec EXCEPT !.pc = "signOut", !.signOuts = @ + 1]
  ELSE IF ShouldRetry(st, rec.retryCount, config.maxRetries)
  THEN [rec EXCEPT !.pc = "retryWait", !.retryCount = @ + 1]
  ELSE createApiError([rec EXCEPT !.errCalls = @ + 1, !.respCalls = @ + 1], st)

\* without the hooks the transport's own outcome reaches the caller
NoHook(rec, st) ==
  IF IsSuccess(st) THEN Settle(rec, "success", st, "")
  ELSE Settle(rec, "RawTransportError", st, "TRANSPORT_CODE")

\* the transport answers
Respond(r, st) ==
  /\ req[r].pc = "sent"
  /\ LET seen == [req[r] EXCEPT !.lastStatus = <<st>>, !.provided = "none"]
     IN  req' = [req EXCEPT ![r] = IF hooks THEN ResponseHook(seen, st) ELSE NoHook(seen, st)]
  /\ UNCHANGED << call, hooks, config, currentToken, tokCall, cleared >>

\* the 401 branch empties the token cache once signOut has settled
SignOutReturn_ClearsToken(r, ok) ==
  /\ req[r].pc = "signOut"
  /\ ok \in SignOutResults(config.signOut)
  /\ currentToken' = Null
  /\ req' = [req EXCEPT ![r] =
       IF ok THEN AuthenticationError([req[r] EXCEPT !.respCalls = @ + 1])
       ELSE Settle(req[r], "SignOutError", 0, "")]
  /\ UNCHANGED << call, hooks, config, tokCall, cleared >>

\* the awaited signOut settles: onResponse runs and the AuthenticationError
\* is delivered, or signOut's own rejection reaches the caller
SignOutReturn(r, ok) ==
  /\ req[r].pc = "signOut"
  /\ ok \in SignOutResults(config.signOut)
  /\ req' = [req EXCEPT ![r] =
       IF ok THEN AuthenticationError([req[r] EXCEPT !.respCalls = @ + 1])
       ELSE Settle(req[r], "SignOutError", 0, "")]
  /\ UNCHANGED << call, hooks, config, currentToken, tokCall, cleared >>

\* the retry delay elapsed: the same request object is handed to the
\* transport instance again
RetryFire(r, h) ==
  /\ req[r].pc = "retryWait"
  /\ req' = [req EXCEPT ![r] = RequestHook(req[r], currentToken, h)]
  /\ UNCHANGED << call, hooks, config, currentToken, tokCall, cleared >>

(* --------------------------- the token cache -------------------------- *)

setToken(t) ==
  /\ currentToken' = t
  /\ cleared' = FALSE
  /\ req' = Disturb(req, currentToken' # currentToken)
  /\ UNCHANGED << call, hooks, config, tokCall >>

\* clearToken that leaves the cached token in place
clearToken_KeepsToken ==
  /\ currentToken' = currentToken
  /\ cleared' = TRUE
  /\ UNCHANGED << call, hooks, config, req, tokCall >>

clearToken ==
  /\ currentToken' = Null
  /\ cleared' = TRUE
  /\ req' = Disturb(req, currentToken' # currentToken)
  /\ UNCHANGED << call, hooks, config, tokCall >>

\* getCurrentToken that asks the provider whatever the cache holds
getCurrentToken_AlwaysFetch ==
  /\ tokCall.pc \in {"idle", "done"}
  /\ tokCall' = IF ~config.enableAuth
                THEN [IdleTokCall EXCEPT !.pc = "done"]
                ELSE [IdleTokCall EXCEPT !.pc = "fetching",
                                         !.afterClear = cleared,
                                         !.fn = config.getSession]
  /\ UNCHANGED << call, hooks, config, currentToken, req, cleared >>

\* the caller calls getCurrentToken(): up to the provider call
getCurrentToken ==
  /\ tokCall.pc \in {"idle", "done"}
  /\ LET made == [IdleTokCall EXCEPT !.afterClear = cleared /\ config.enableAuth]
     IN  tokCall' =
           IF ~config.enableAuth THEN [made EXCEPT !.pc = "done"]
           ELSE IF currentToken # Null
           THEN [made EXCEPT !.pc = "done", !.result = currentToken]
           ELSE [made EXCEPT !.pc = "fetching", !.fn = config.getSession]
  /\ UNCHANGED << call, hooks, config, currentToken, req, cleared >>

\* the provider call of a direct getCurrentToken() settles
TokenCallReturn(res) ==
  /\ tokCall.pc = "fetching"
  /\ res \in ProviderResults(tokCall.fn)
  /\ currentToken' = TokenAfterFetch(res)
  /\ cleared' = (cleared /\ currentToken' = currentToken)
  /\ tokCall' = [tokCall EXCEPT !.pc = "done", !.result = AccessToken(res), !.provided = res]
  /\ req' = Disturb(req, currentToken' # currentToken)
  /\ UNCHANGED << call, hooks, config >>

(* --------------------------- configuration ---------------------------- *)

\* updateConfig({ maxRetries: m })
updateConfigMaxRetries(m) ==
  /\ config.maxRetries # m
  /\ config' = [config EXCEPT !.maxRetries = m]
  /\ UNCHANGED << call, hooks, currentToken, req, tokCall, cleared >>

\* updateConfig({ enableAuth: b })
updateConfigEnableAuth(b) ==
  /\ config.enableAuth # b
  /\ config' = [config EXCEPT !.enableAuth = b]
  /\ req' = [ r \in DOMAIN req |-> [Disturb(req, TRUE)[r] EXCEPT !.off = FALSE] ]
  /\ UNCHANGED << call, hooks, currentToken, tokCall, cleared >>

Next ==
  \/ \E r \in DOMAIN req, s \in ServiceNames : Issue(r, s)
  \/ \E r \in DOMAIN req, res \in SessionResults : SessionReturnA(r, res)
  \/ \E r \in DOMAIN req, h \in {"ok", "throw"} : Handoff(r, h)
  \/ \E r \in DOMAIN req, res \in SessionResults : SessionReturnB(r, res)
  \/ \E r \in DOMAIN req, st \in Statuses : Respond(r, st)
  \/ \E r \in DOMAIN req, ok \in BOOLEAN : SignOutReturn(r, ok)
  \/ \E r \in DOMAIN req, h \in {"ok", "throw"} : RetryFire(r, h)
  \/ \E t \in Tokens : setToken(t)
  \/ clearToken
  \/ getCurrentToken
  \/ \E res \in SessionResults : TokenCallReturn(res)
  \/ \E m \in 0..MaxRetriesOpt : updateConfigMaxRetries(m)
  \/ \E b \in BOOLEAN : updateConfigEnableAuth(b)

Spec == Init /\ [][Next]_vars

(* --------------------------- the constructor -------------------------- *)

\* the message of the Error the constructor throws
RequiredMessage == "getSession and signOut functions are required when enableAuth is true"

\* the fields before any instance exists
NoInstance ==
  [ baseUrl |-> "", enableAuth |-> FALSE, maxRetries |-> 0, services |-> << >>,
    getSession |-> "default", signOut |-> "default" ]

\* `new Api(o)` has been called with any options a caller may write
InitConstructor ==
  /\ \E o \in Options : call = [op |-> "new", options |-> o, state |-> "called", message |-> ""]
  /\ config = NoInstance
  /\ hooks = FALSE
  /\ currentToken = Null
  /\ req = [r \in Req |-> NewRequest]
  /\ tokCall = IdleTokCall
  /\ cleared = FALSE

\* the constructor runs: it throws, or builds the configuration and installs
\* the hooks when auth is enabled
constructor ==
  /\ call.op = "new" /\ call.state = "called"
  /\ IF ConstructorThrows(call.options)
     THEN /\ call' = [call EXCEPT !.state = "threw", !.message = RequiredMessage]
          /\ UNCHANGED << config, hooks >>
     ELSE /\ call' = [call EXCEPT !.state = "returned"]
          /\ config' = Construct(call.options)
          /\ hooks' = Construct(call.options).enableAuth
  /\ UNCHANGED << currentToken, req, tokCall, cleared >>

NextConstructor == constructor

SpecConstructor == InitConstructor /\ [][NextConstructor]_vars

(* ----------------------- configuration calls -------------------------- *)

\* the services objects a caller may pass to updateConfig: the typed ones,
\* and one that names a custom service only
UpdateServices ==
  (CallerServices \ { << >> }) \cup { << Svc("service_1", "u2", "true") >> }

\* the base urls a caller may pass to updateConfig
UpdateUrls == {"u0", "u9"}

\* an instance as the constructor returned it, no request issued yet
InitConfig ==
  /\ \E o \in Options :
       /\ ~ConstructorThrows(o)
       /\ config = Construct(o)
       /\ hooks = Construct(o).enableAuth
       /\ call = [op |-> "new", options |-> o, state |-> "returned", message |-> "",
                  snapshot |-> << >>, writes |-> 0]
  /\ currentToken = Null
  /\ req = [r \in Req |-> NewRequest]
  /\ tokCall = IdleTokCall
  /\ cleared = FALSE

\* how many times the caller writes into the object getConfig() returned
MaxWrites == 1

\* the object a getConfig() call returned, if one did: `value` is the copy
\* of the top-level keys, `shared` tells that its `services` key still holds
\* the very object this.config.services holds
Unshared(snapshot) ==
  IF snapshot = << >> THEN snapshot
  ELSE << [value  |-> [snapshot[1].value EXCEPT
                         !.services = IF snapshot[1].shared THEN config.services ELSE @],
           shared |-> FALSE] >>

\* the values a caller reads through the object getConfig() returned
Readable == Unshared(call.snapshot)[1].value

\* updateConfig({ services: m }): the spread replaces the map as a whole
updateConfigServices(m) ==
  /\ config' = [config EXCEPT !.services = m]
  /\ call' = [call EXCEPT !.options.services = m, !.snapshot = Unshared(@)]
  /\ UNCHANGED << hooks, currentToken, req, tokCall, cleared >>

\* services with the url of entry n set to u
WithUrl(services, n, u) ==
  [ i \in 1..Len(services) |->
      IF services[i].name = n THEN [services[i] EXCEPT !.url = u] ELSE services[i] ]

\* updateConfig({ baseUrl: u }): the url of `private`, then of `public`, is
\* set in place; the assignment to a missing entry throws and ends the call
updateConfigBaseUrl(u) ==
  /\ config' = [config EXCEPT
       !.baseUrl = u,
       !.services =
          IF "private" \notin Names(@) THEN @
          ELSE WithUrl(WithUrl(@, "private", u), "public", u)]
  /\ UNCHANGED << call, hooks, currentToken, req, tokCall, cleared >>

\* the functions a caller passes to updateAuthFunctions
Passed == "passed"

\* each argument, when either is passed, replaces both functions
updateAuthFunctions_Coupled(gs, so) ==
  /\ config' = [config EXCEPT
       !.getSession = IF gs \/ so THEN Passed ELSE @,
       !.signOut    = IF gs \/ so THEN Passed ELSE @]
  /\ call' = IF "auth" \in DOMAIN call THEN [call EXCEPT !.auth = << gs, so >>] ELSE call
  /\ UNCHANGED << hooks, currentToken, req, tokCall, cleared >>

\* updateAuthFunctions(getSession?, signOut?): gs, so tell which were passed
\* (a call studied with its arguments keeps them in `auth`)
updateAuthFunctions(gs, so) ==
  /\ config' = [config EXCEPT
       !.getSession = IF gs THEN Passed ELSE @,
       !.signOut    = IF so THEN Passed ELSE @]
  /\ call' = IF "auth" \in DOMAIN call THEN [call EXCEPT !.auth = << gs, so >>] ELSE call
  /\ UNCHANGED << hooks, currentToken, req, tokCall, cleared >>

NextConfig ==
  \/ \E m \in 0..MaxRetriesOpt : updateConfigMaxRetries(m)
  \/ \E b \in BOOLEAN : updateConfigEnableAuth(b)
  \/ \E m \in UpdateServices : updateConfigServices(m)
  \/ \E u \in UpdateUrls : updateConfigBaseUrl(u)
  \/ \E gs \in BOOLEAN, so \in BOOLEAN : updateAuthFunctions(gs, so)
  \/ \E t \in Tokens : setToken(t)
  \/ clearToken

SpecConfig == InitConfig /\ [][NextConfig]_vars

(* ------------------------------ getConfig ----------------------------- *)

\* an instance built with the default options
SnapshotOptions ==
  [ enableAuth |-> "false", getSession |-> FALSE, signOut |-> FALSE,
    maxRetries |-> << >>, services |-> << >> ]

InitSnapshot ==
  /\ config = Construct(SnapshotOptions)
  /\ hooks = Construct(SnapshotOptions).enableAuth
  /\ call = [op |-> "new", options |-> SnapshotOptions, state |-> "returned",
             message |-> "", snapshot |-> << >>, writes |-> 0]
  /\ currentToken = Null
  /\ req = [r \in Req |-> NewRequest]
  /\ tokCall = IdleTokCall
  /\ cleared = FALSE

\* getConfig(): return { ...this.config }
getConfigReturns == << [value |-> config, shared |-> TRUE] >>

getConfig ==
  /\ call.snapshot = << >>
  /\ call' = [call EXCEPT !.snapshot = getConfigReturns]
  /\ UNCHANGED << hooks, config, currentToken, req, tokCall, cleared >>

\* the caller writes into the object getConfig() returned: deep, the url of
\* its `private` service entry; otherwise its top-level baseUrl
writeSnapshot(deep, u) ==
  /\ call.snapshot # << >> /\ call.writes < MaxWrites
  /\ deep => "private" \in Names(Readable.services)
  /\ IF deep /\ call.snapshot[1].shared
     THEN /\ config' = [config EXCEPT !.services = WithUrl(@, "private", u)]
          /\ call' = [call EXCEPT !.writes = @ + 1]
     ELSE /\ call' = [call EXCEPT
               !.writes = @ + 1,
               !.snapshot[1].value =
                  IF deep THEN [@ EXCEPT !.services = WithUrl(@, "private", u)]
                  ELSE [@ EXCEPT !.baseUrl = u]]
          /\ UNCHANGED config
  /\ UNCHANGED << hooks, currentToken, req, tokCall, cleared >>

NextSnapshot ==
  \/ getConfig
  \/ \E deep \in BOOLEAN, u \in UpdateUrls : writeSnapshot(deep, u)
  \/ \E m \in UpdateServices : updateConfigServices(m)
  \/ \E u \in UpdateUrls : updateConfigBaseUrl(u)
  \/ \E gs \in BOOLEAN, so \in BOOLEAN : updateAuthFunctions(gs, so)

SpecSnapshot == InitSnapshot /\ [][NextSnapshot]_vars

(* ---------------------------- updateConfig ---------------------------- *)

\* the top-level keys a caller names in the partial configuration
PartialKeys == {"baseUrl", "maxRetries", "services"}

\* the partial configurations a caller may pass: any of the keys, each with
\* a value of its type
Partials ==
  { [k \in S |-> full[k]] :
      full \in [baseUrl : UpdateUrls, maxRetries : 0..MaxRetriesOpt, services : UpdateServices],
      S \in (SUBSET PartialKeys) \ { {} } }

\* the services of the partial merged entry by entry into those in place
Spread_EntryByEntry(cfg, partial) ==
  [ k \in DOMAIN cfg |->
      IF k \notin DOMAIN partial THEN cfg[k]
      ELSE IF k = "services" THEN SpreadServices(cfg[k], partial[k])
      ELSE partial[k] ]

\* { ...this.config, ...newConfig }
Spread(cfg, partial) ==
  [ k \in DOMAIN cfg |-> IF k \in DOMAIN partial THEN partial[k] ELSE cfg[k] ]

\* an instance as the constructor returned it, the token cache empty or
\* written by setToken
InitUpdateConfig ==
  /\ \E o \in { [SnapshotOptions EXCEPT !.services = m] : m \in CallerServices } :
       /\ config = Construct(o)
       /\ hooks = Construct(o).enableAuth
  /\ call = [op |-> "none"]
  /\ currentToken = Null
  /\ req = [r \in Req |-> NewRequest]
  /\ tokCall = IdleTokCall
  /\ cleared = FALSE

\* updateConfig(partial): the spread, then the base url is carried into the
\* `private` and `public` entries of services (the assignment to a missing
\* entry throws and ends the call)
updateConfig(partial) ==
  /\ config' =
       IF "baseUrl" \in DOMAIN partial
       THEN [Spread(config, partial) EXCEPT
               !.services =
                  IF "private" \notin Names(@) THEN @
                  ELSE WithUrl(WithUrl(@, "private", partial.baseUrl), "public", partial.baseUrl)]
       ELSE Spread(config, partial)
  /\ call' = [op |-> "updateConfig", partial |-> partial]
  /\ UNCHANGED << hooks, currentToken, req, tokCall, cleared >>

NextUpdateConfig ==
  \/ \E partial \in Partials : updateConfig(partial)
  \/ \E t \in Tokens : setToken(t)
  \/ clearToken

SpecUpdateConfig == InitUpdateConfig /\ [][NextUpdateConfig]_vars

(* ------------------------ concurrent requests ------------------------- *)

\* the requests that run side by side
ConcurrentReq == {"r1", "r2"}

\* an instance with auth enabled, its own hooks, and each service at its
\* own endpoint
ConcurrentOptions ==
  [ enableAuth |-> "true", getSession |-> TRUE, signOut |-> TRUE,
    maxRetries |-> << 1 >>,
    services   |-> << Svc("public", "u1", "false"), Svc("private", "u2", "true") >> ]

\* two request slots on that instance, the token cache empty
InitConcurrent ==
  /\ config = Construct(ConcurrentOptions)
  /\ hooks = Construct(ConcurrentOptions).enableAuth
  /\ currentToken = Null
  /\ req = [r \in ConcurrentReq |-> NewRequest]
  /\ tokCall = IdleTokCall
  /\ cleared = FALSE
  /\ call = NoCall

\* requests and direct getCurrentToken() calls interleave; the caller
\* writes no token of its own
NextConcurrent ==
  \/ \E r \in DOMAIN req, s \in {"public", "private"} : Issue(r, s)
  \/ \E r \in DOMAIN req, res \in SessionResults : SessionReturnA(r, res)
  \/ \E r \in DOMAIN req, h \in {"ok", "throw"} : Handoff(r, h)
  \/ \E r \in DOMAIN req, res \in SessionResults : SessionReturnB(r, res)
  \/ \E r \in DOMAIN req, st \in Statuses : Respond(r, st)
  \/ \E r \in DOMAIN req, ok \in BOOLEAN : SignOutReturn(r, ok)
  \/ \E r \in DOMAIN req, h \in {"ok", "throw"} : RetryFire(r, h)
  \/ getCurrentToken
  \/ \E res \in SessionResults : TokenCallReturn(res)

SpecConcurrent == InitConcurrent /\ [][NextConcurrent]_vars

(* ----------------------- error normalisation -------------------------- *)

\* a property that is not there
Undefined == "undefined"

\* the transport errors createApiError may be handed: `response` is << >>
\* or the response (its status and the message and code fields of its
\* body), `message` and `code` are the transport's own
TransportErrors ==
  [ response : {<< >>} \cup
               { << [status |-> st, message |-> m, code |-> c] >> :
                   st \in {400, 500},
                   m \in {Undefined, "", "server says no"},
                   c \in {Undefined, "", "E_SERVER"} },
    message  : {"Request failed", "Network Error"},
    code     : {Undefined, "ERR_BAD_RESPONSE"} ]

\* a fallback taken only when the left side is undefined
Or_Nullish(a, b) == IF a = Undefined THEN b ELSE a

\* a || b on optional strings: undefined and '' are falsy
Or(a, b) == IF a \in {Undefined, ""} THEN b ELSE a

\* error.response?.data?.<field>
BodyField(e, f) == IF e.response = << >> THEN Undefined ELSE e.response[1][f]

\* the ApiError createApiError builds: message, status (0: none), code
ApiErrorOf(e) ==
  [ message |-> Or(BodyField(e, "message"), e.message),
    status  |-> IF e.response = << >> THEN 0 ELSE e.response[1].status,
    code    |-> Or(BodyField(e, "code"), e.code) ]

\* the response error handler is about to normalise some transport error
InitCreateApiError ==
  /\ \E e \in TransportErrors :
       call = [op |-> "createApiError", error |-> e, state |-> "called",
               result |-> [message |-> "", status |-> 0, code |-> ""]]
  /\ config = Construct(ConcurrentOptions)
  /\ hooks = Construct(ConcurrentOptions).enableAuth
  /\ currentToken = Null
  /\ req = [r \in Req |-> NewRequest]
  /\ tokCall = IdleTokCall
  /\ cleared = FALSE

\* createApiError returns
CreateApiErrorReturns ==
  /\ call.op = "createApiError" /\ call.state = "called"
  /\ call' = [call EXCEPT !.state = "returned", !.result = ApiErrorOf(call.error)]
  /\ UNCHANGED << hooks, config, currentToken, req, tokCall, cleared >>

NextCreateApiError == CreateApiErrorReturns

SpecCreateApiError == InitCreateApiError /\ [][NextCreateApiError]_vars

(* ----------------------------- buildUrl ------------------------------- *)

\* a JS value of a search parameter: its type and String(value), as characters
Val(t, chars) == [t |-> t, s |-> chars]

\* the endpoints passed to buildUrl, as characters
Endpoints ==
  { << "/", "u" >>, << " ", "/", "u" >>, << "/", "u", " ", " " >>, << " " >> }

\* the values a caller may give each key of searchParams; the type "absent"
\* marks a key the object does not have
PageValues   == { Val("absent", << >>), Val("number", << "0" >>), Val("number", << "1" >>) }
LimitValues  == { Val("absent", << >>), Val("undefined", << >>), Val("null", << >>),
                  Val("number", << "1", "0" >>) }
ActiveValues == { Val("absent", << >>), Val("boolean", << "f", "a", "l", "s", "e" >>),
                  Val("boolean", << "t", "r", "u", "e" >>) }
FilterValues == { Val("absent", << >>), Val("string", << >>), Val("string", << "a", " ", "b" >>) }

\* Object.entries(searchParams): the keys the object has, in order
Entries(page, limit, active, filter) ==
  LET all == << [key |-> "page", value |-> page], [key |-> "limit", value |-> limit],
                [key |-> "active", value |-> active], [key |-> "filter", value |-> filter] >>
  IN  SelectSeq(all, LAMBDA e : e.value.t # "absent")

\* the searchParams arguments: << >> is an object without keys
SearchParamsArgs ==
  { Entries(p, l, a, f) : p \in PageValues, l \in LimitValues,
                          a \in ActiveValues, f \in FilterValues }

\* a string from its characters
RECURSIVE Str(_)
Str(cs) == IF cs = << >> THEN "" ELSE cs[1] \o Str(Tail(cs))

\* String.prototype.trim
RECURSIVE Trim(_)
Trim(cs) ==
  IF cs = << >> THEN cs
  ELSE IF cs[1] = " " THEN Trim(Tail(cs))
  ELSE IF cs[Len(cs)] = " " THEN Trim(SubSeq(cs, 1, Len(cs) - 1))
  ELSE cs

\* a filter that keeps the truthy values only
Kept_Truthy(v) ==
  /\ v.t \notin {"undefined", "null"}
  /\ v.s \notin { << >>, << "0" >>, << "f", "a", "l", "s", "e" >> }

\* value !== undefined && value !== null && value !== ''
Kept(v) ==
  /\ v.t # "undefined"
  /\ v.t # "null"
  /\ ~(v.t = "string" /\ v.s = << >>)

\* URLSearchParams' encoding of the characters in use: a space becomes '+'
Encode(cs) == [ i \in 1..Len(cs) |-> IF cs[i] = " " THEN "+" ELSE cs[i] ]

\* new URLSearchParams(filteredParams).toString()
RECURSIVE QueryString(_)
QueryString(es) ==
  IF es = << >> THEN ""
  ELSE (es[1].key \o "=" \o Str(Encode(es[1].value.s)))
         \o (IF Len(es) = 1 THEN "" ELSE "&" \o QueryString(Tail(es)))

\* buildUrl(endpoint, searchParams); `given` is false when searchParams is
\* undefined
buildUrl(endpoint, given, params) ==
  LET cleanEndpoint  == Str(Trim(endpoint))
      filteredParams == SelectSeq(params, LAMBDA e : Kept(e.value))
      queryString    == QueryString(filteredParams)
  IN  IF ~given THEN cleanEndpoint
      ELSE IF queryString # "" THEN cleanEndpoint \o "?" \o queryString
      ELSE cleanEndpoint

\* buildUrl has been called with some endpoint and search parameters
InitBuildUrl ==
  /\ \E e \in Endpoints, g \in BOOLEAN, ps \in SearchParamsArgs :
       /\ (~g => ps = << >>)
       /\ call = [op |-> "buildUrl", endpoint |-> e, given |-> g, params |-> ps,
                  state |-> "called", result |-> ""]
  /\ config = Construct(ConcurrentOptions)
  /\ hooks = Construct(ConcurrentOptions).enableAuth
  /\ currentToken = Null
  /\ req = [r \in Req |-> NewRequest]
  /\ tokCall = IdleTokCall
  /\ cleared = FALSE

\* buildUrl returns
BuildUrlReturns ==
  /\ call.op = "buildUrl" /\ call.state = "called"
  /\ call' = [call EXCEPT !.state = "returned",
                          !.result = buildUrl(call.endpoint, call.given, call.params)]
  /\ UNCHANGED << hooks, config, currentToken, req, tokCall, cleared >>

NextBuildUrl == BuildUrlReturns

SpecBuildUrl == InitBuildUrl /\ [][NextBuildUrl]_vars

(* ---------------------- the interceptors in detail -------------------- *)

\* One call of a verb method on the `public` service (no token is involved),
\* with the order of the collaborators' invocations recorded.  The
\* onRequestError hook is taken to return.

\* how many times onRequest may throw during one call
MaxThrows == 1

\* the interceptor functions: those given to the constructor, those given to
\* updateConfig later
Constructed == "constructed"
Updated == "updated"

\* the body of a transport response (a 204 has none), and the body of the
\* response an onResponse interceptor builds itself
Bodies == {"raw", Undefined}
Rebuilt == "rebuilt"

\* what an onResponse interceptor may do with the response it is given
Behaviours == {"same", "other", "throw"}

\* the errors an onRequest interceptor may throw: with or without `config`,
\* with a response (its status) or without one (0)
Raised == [ config : BOOLEAN, status : Statuses \ {200}, who : {"onRequest"} ]

\* the error the transport rejects with on status st (0: no response)
TransportError(st) == [ config |-> TRUE, status |-> st, who |-> "transport" ]

\* an instance with both auth functions, enableAuth written true or false
InterceptorOptions ==
  { [ConcurrentOptions EXCEPT !.enableAuth = a, !.maxRetries = << MaxRetriesOpt >>] :
      a \in {"true", "false"} }

\* one entry of the record of invocations
Ev(e, v, status, shell, did) ==
  [ e |-> e, v |-> v, status |-> status, shell |-> shell, did |-> did ]

\* the call before the verb method is entered
NewCall ==
  [ op |-> "request", pc |-> "idle", retryCount |-> 0, throws |-> 0,
    body |-> Undefined, raised |-> << >>, events |-> << >>,
    auth |-> << FALSE, FALSE >>,
    outcome |-> [kind |-> "none", value |-> ""] ]

InitInterceptors ==
  /\ \E o \in InterceptorOptions :
       /\ config = Construct(o) @@ [onRequest |-> Constructed, onResponse |-> Constructed]
       /\ hooks = Construct(o).enableAuth
  /\ currentToken = Null
  /\ req = [r \in Req |-> NewRequest]
  /\ tokCall = IdleTokCall
  /\ cleared = FALSE
  /\ call = NewCall

\* the promise of the verb method settles
Settled(c, kind, value) ==
  [c EXCEPT !.pc = "done", !.outcome = [kind |-> kind, value |-> value]]

Logged(c, ev) == [c EXCEPT !.events = Append(@, ev)]

\* the interceptor the constructor was given, whatever the configuration holds
Interceptor_Captured(k) == Constructed

\* this.config.onRequest / this.config.onResponse, read when it is invoked
Interceptor(k) == config[k]

\* the shell is passed whatever the error carries
ResponseFor_AlwaysShell(e, shellStatus) == [status |-> shellStatus, shell |-> TRUE]

\* error.response ?? { data: null, status: shellStatus, ... }
ResponseFor(e, shellStatus) ==
  IF e.status # 0 THEN [status |-> e.status, shell |-> FALSE]
  ELSE [status |-> shellStatus, shell |-> TRUE]

\* this.config.onResponse(res) inside a try/catch that only logs
onResponseLogged(c, res, b) ==
  Logged(c, Ev("onResponse", Interceptor("onResponse"), res.status, res.shell, b))

\* the 401 branch that does not wait for signOut
unauthorized_NotAwaited(c, b) ==
  Settled(onResponseLogged(Logged(c, Ev("signOut", config.signOut, -1, FALSE, "called")),
                           [status |-> Unauthorized, shell |-> FALSE], b),
          "rejected", "AuthenticationError")

\* the 401 branch up to `await this.config.signOut()`
unauthorized(c, b) ==
  [Logged(c, Ev("signOut", config.signOut, -1, FALSE, "called")) EXCEPT !.pc = "signOut"]

\* the response error handler given error e; b is what onResponse does
responseErrorHandler(c, e, b) ==
  IF ~e.config
  THEN Settled(onResponseLogged(c, ResponseFor(e, 0), b), "rejected", e.who)
  ELSE IF e.status = Unauthorized
  THEN unauthorized(c, b)
  ELSE IF e.status >= ServerErrorFloor /\ c.retryCount < config.maxRetries
  THEN [c EXCEPT !.retryCount = @ + 1, !.pc = "retryWait"]
  ELSE LET built  == Logged(c, Ev("createApiError", "", e.status, FALSE, "returned"))
           told   == Logged(built, Ev("onRequestError", "ApiError", e.status, FALSE, "returned"))
       IN  Settled(onResponseLogged(told, ResponseFor(e, 0), b), "rejected", "ApiError")

\* the response success handler: the caller gets the body of what onResponse
\* returns, or the exception it throws
responseInterceptor(c, body, b) ==
  LET ran == Logged(c, Ev("onResponse", Interceptor("onResponse"), 200, FALSE, b))
  IN  CASE b = "throw" -> Settled(ran, "rejected", "onResponse")
        [] b = "same"  -> Settled(ran, "resolved", body)
        [] OTHER       -> Settled(ran, "resolved", Rebuilt)

\* the transport is invoked
adapter(c) == [Logged(c, Ev("transport", "", -1, FALSE, "called")) EXCEPT !.pc = "sent"]

\* the request interceptor, then the transport or, if onRequest throws e, the
\* response error handler.  A thrown error that carries a config makes that
\* config the request the handler works on
requestInterceptor(c, h, e, b) ==
  LET ran == Logged(c, Ev("onRequest", Interceptor("onRequest"), -1, FALSE,
                          IF h = "throw" THEN "threw" ELSE "returned"))
  IN  IF h = "throw"
      THEN responseErrorHandler(
             [ran EXCEPT !.throws = @ + 1, !.raised = Append(@, e),
                         !.retryCount = IF e.config THEN 0 ELSE @], e, b)
      ELSE adapter(ran)

\* api.get(...) and the like: executeRequest hands the request to axios
verb(h, e, b) ==
  /\ call.pc = "idle"
  /\ h = "throw" => call.throws < MaxThrows
  /\ call' = IF hooks THEN requestInterceptor(call, h, e, b) ELSE adapter(call)
  /\ UNCHANGED << hooks, config, currentToken, req, tokCall, cleared >>

\* the transport answers with status st; body is the body of a 2xx answer
transportAnswers(st, body, b) ==
  /\ call.pc = "sent"
  /\ LET got == [Logged(call, Ev("answer", "", st, FALSE, "")) EXCEPT
                  !.body = IF st = 200 THEN body ELSE Undefined]
     IN  call' =
           IF hooks
           THEN IF st = 200 THEN responseInterceptor(got, body, b)
                ELSE responseErrorHandler(got, TransportError(st), b)
           ELSE IF st = 200 THEN Settled(got, "resolved", body)
                ELSE Settled(got, "rejected", "transport")
  /\ UNCHANGED << hooks, config, currentToken, req, tokCall, cleared >>

\* the 401 branch with signOut's rejection caught and logged
signOutSettles_Caught(ok, b) ==
  /\ call.pc = "signOut"
  /\ LET fn   == call.events[Len(call.events)].v
         back == Logged(call, Ev("signOut", fn, -1, FALSE,
                                 IF ok THEN "returned" ELSE "threw"))
     IN  /\ ok \in SignOutResults(fn)
         /\ call' = Settled(onResponseLogged(back, [status |-> Unauthorized, shell |-> FALSE], b),
                            "rejected", "AuthenticationError")
  /\ UNCHANGED << hooks, config, currentToken, req, tokCall, cleared >>

\* await this.config.signOut() ends; on a rejection the handler ends there
signOutSettles(ok, b) ==
  /\ call.pc = "signOut"
  /\ LET fn == call.events[Len(call.events)].v     \* the function invoked
     IN  /\ ok \in SignOutResults(fn)
         /\ call' =
              IF ok
              THEN LET back == Logged(call, Ev("signOut", fn, -1, FALSE, "returned"))
                   IN  Settled(onResponseLogged(back, [status |-> Unauthorized, shell |-> FALSE], b),
                               "rejected", "AuthenticationError")
              ELSE Settled(Logged(call, Ev("signOut", fn, -1, FALSE, "threw")),
                           "rejected", "signOut")
  /\ UNCHANGED << hooks, config, currentToken, req, tokCall, cleared >>

\* the retry delay is over: this.axiosInstance(originalRequest)
retryTimerFires(h, e, b) ==
  /\ call.pc = "retryWait"
  /\ h = "throw" => call.throws < MaxThrows
  /\ call' = requestInterceptor(call, h, e, b)
  /\ UNCHANGED << hooks, config, currentToken, req, tokCall, cleared >>

\* updateConfig({ onRequest?, onResponse? }): f, g tell which were passed
updateConfigInterceptors(f, g) ==
  /\ f \/ g
  /\ config' = [config EXCEPT
       !.onRequest  = IF f THEN Updated ELSE @,
       !.onResponse = IF g THEN Updated ELSE @]
  /\ config' # config
  /\ UNCHANGED << call, hooks, currentToken, req, tokCall, cleared >>

NextInterceptors ==
  \/ \E h \in {"return", "throw"}, e \in Raised, b \in Behaviours : verb(h, e, b)
  \/ \E st \in Statuses, body \in Bodies, b \in Behaviours : transportAnswers(st, body, b)
  \/ \E ok \in BOOLEAN, b \in Behaviours : signOutSettles(ok, b)
  \/ \E h \in {"return", "throw"}, e \in Raised, b \in Behaviours : retryTimerFires(h, e, b)
  \/ \E f \in BOOLEAN, g \in BOOLEAN : updateConfigInterceptors(f, g)

SpecInterceptors == InitInterceptors /\ [][NextInterceptors]_vars

\* the same call when every awaited collaborator settles and the retry
\* timer fires: the transport answers a request it was handed, the awaited
\* signOut settles, setTimeout(resolve, retryDelay) elapses
FairInterceptors ==
  /\ InitInterceptors /\ [][NextInterceptors]_vars
  /\ WF_vars(\E st \in Statuses, body \in Bodies, b \in Behaviours :
               transportAnswers(st, body, b))
  /\ WF_vars(\E ok \in BOOLEAN, b \in Behaviours : signOutSettles(ok, b))
  /\ WF_vars(\E h \in {"return", "throw"}, e \in Raised, b \in Behaviours :
               retryTimerFires(h, e, b))

(* ------------------------- updateAuthFunctions ------------------------ *)

\* the auth functions are swapped around direct getCurrentToken() calls and
\* one request that the transport may answer with a 401
NextAuthFunctions ==
  \/ \E gs \in BOOLEAN, so \in BOOLEAN : updateAuthFunctions(gs, so)
  \/ getCurrentToken
  \/ \E res \in SessionResults : TokenCallReturn(res)
  \/ \E t \in Tokens : setToken(t)
  \/ clearToken
  \/ verb("return", TransportError(0), "same")
  \/ \E st \in {200, Unauthorized} : transportAnswers(st, "raw", "same")
  \/ \E ok \in BOOLEAN : signOutSettles(ok, "same")

SpecAuthFunctions == InitInterceptors /\ [][NextAuthFunctions]_vars

(* ------------------------ the services option ------------------------- *)

\* services options in which the caller gives `private` an endpoint only
\* (no enableAuth): alone, at the default endpoint, next to a `public` entry
\* of its own, and next to a custom service
EndpointOnlyServices ==
  { << Svc("private", "u1", "undefined") >>,
    << Svc("private", BaseUrl, "undefined") >>,
    << Svc("public", "u1", "true"), Svc("private", "u1", "undefined") >>,
    << Svc("private", "u1", "undefined"), Svc("service_1", "u1", "true") >> }

\* an auth-enabled instance built with such an option, retries off
InitServices ==
  /\ \E m \in EndpointOnlyServices :
       LET o == [ enableAuth |-> "true", getSession |-> TRUE, signOut |-> TRUE,
                  maxRetries |-> << 0 >>, services |-> m ]
       IN  /\ config = Construct(o)
           /\ hooks = Construct(o).enableAuth
           /\ call = [op |-> "new", options |-> o, state |-> "returned", message |-> ""]
  /\ currentToken = Null
  /\ req = [r \in Req |-> NewRequest]
  /\ tokCall = IdleTokCall
  /\ cleared = FALSE

\* requests to any service that the transport answers with a success, with
\* the caller writing and clearing the token cache
NextServices ==
  \/ \E r \in DOMAIN req, s \in ServiceNames : Issue(r, s)
  \/ \E r \in DOMAIN req, res \in SessionResults : SessionReturnA(r, res)
  \/ \E r \in DOMAIN req, h \in {"ok", "throw"} : Handoff(r, h)
  \/ \E r \in DOMAIN req, res \in SessionResults : SessionReturnB(r, res)
  \/ \E r \in DOMAIN req : Respond(r, 200)
  \/ \E t \in Tokens : setToken(t)
  \/ clearToken

SpecServices == InitServices /\ [][NextServices]_vars

(* ------------------------ the request's headers ----------------------- *)

\* One call of request() on an instance with the hooks installed, with the
\* headers of the request object followed from getServiceConfig through the
\* request interceptor to the transport, attempt after attempt.

\* the headers followed: one the interceptor may add, and Authorization
NoHeaders == [ XTest |-> Absent, Authorization |-> Absent ]

\* what the caller's onRequest may do: return the request as it is, add a
\* header, write an Authorization of its own, return headers without
\* Authorization, or throw
Edits == {"same", "addXTest", "setAuthorization", "dropAuthorization", "throw"}

\* the headers of the request onRequest returns, given those it received
Edited(f, h) ==
  CASE f = "addXTest"          -> [h EXCEPT !.XTest = "yes"]
    [] f = "setAuthorization"  -> [h EXCEPT !.Authorization = "Custom"]
    [] f = "dropAuthorization" -> [h EXCEPT !.Authorization = Absent]
    [] OTHER                   -> h

\* { ...config.headers, ...modifiedConfig.headers }
MergeHeaders(mine, theirs) ==
  [ k \in DOMAIN mine |-> IF theirs[k] # Absent THEN theirs[k] ELSE mine[k] ]

\* the call before request() is entered
NewHeadersCall ==
  [ op |-> "headers", pc |-> "idle", service |-> "", baseURL |-> "",
    headers |-> NoHeaders, given |-> NoHeaders, returned |-> NoHeaders,
    sent |-> NoHeaders, left |-> NoHeaders,
    reqCalls |-> 0, attempts |-> 0, retryCount |-> 0, outcome |-> "none" ]

InitHeaders ==
  /\ config = Construct(ConcurrentOptions)
  /\ hooks = Construct(ConcurrentOptions).enableAuth
  /\ currentToken = Null
  /\ req = [r \in Req |-> NewRequest]
  /\ tokCall = IdleTokCall
  /\ cleared = FALSE
  /\ call = NewHeadersCall

\* the adapter is invoked with the request: `left` keeps the headers of the
\* attempt before
dispatchRequest(c, h) ==
  [c EXCEPT !.pc = "sent", !.attempts = @ + 1, !.headers = h,
            !.left = c.sent, !.sent = h]

\* request(): getServiceConfig up to its first suspension
requestHeaders(s) ==
  /\ call.op = "headers" /\ call.pc = "idle"
  /\ LET e    == ServiceEntry(config.services, s)
         base == [call EXCEPT !.service = s, !.baseURL = e[1].url]
     IN  /\ e # << >>
         /\ call' =
              IF NeedsToken(e[1])
              THEN IF currentToken # Null
                   THEN [base EXCEPT !.pc = "queued",
                                     !.headers.Authorization = Bearer(currentToken)]
                   ELSE [base EXCEPT !.pc = "sessionA"]
              ELSE [base EXCEPT !.pc = "queued"]
  /\ UNCHANGED << hooks, config, currentToken, req, tokCall, cleared >>

\* the request interceptor: onRequest, the merge of the headers, then the
\* token of the service found by the request's baseURL
interceptHeaders(c, f, tok) ==
  LET ran    == [c EXCEPT !.reqCalls = @ + 1, !.given = c.headers,
                          !.returned = Edited(f, c.headers)]
      merged == MergeHeaders(c.headers, ran.returned)
      svc    == getServiceByUrl(config.services, c.baseURL)
  IN  IF f = "throw" THEN [ran EXCEPT !.pc = "done", !.outcome = "onRequest"]
      ELSE IF svc # << >> /\ Truthy(svc[1].enableAuth) /\ config.enableAuth
      THEN IF tok # Null
           THEN dispatchRequest(ran, [merged EXCEPT !.Authorization = Bearer(tok)])
           ELSE [ran EXCEPT !.pc = "sessionB", !.headers = merged]
      ELSE dispatchRequest(ran, merged)

\* getServiceConfig returned, or the retry delay is over: the request object
\* goes through the request interceptor
handOver(f) ==
  /\ call.op = "headers" /\ call.pc \in {"queued", "retryWait"}
  /\ call' = interceptHeaders(call, f, currentToken)
  /\ UNCHANGED << hooks, config, currentToken, req, tokCall, cleared >>

\* the session provider answers getServiceConfig or the request interceptor
sessionAnswers(res) ==
  /\ call.op = "headers" /\ call.pc \in {"sessionA", "sessionB"}
  /\ res \in ProviderResults(config.getSession)
  /\ currentToken' = TokenAfterFetch(res)
  /\ cleared' = (cleared /\ currentToken' = currentToken)
  /\ LET tok == AccessToken(res)
         h   == IF tok # Null THEN [call.headers EXCEPT !.Authorization = Bearer(tok)]
                ELSE call.headers
     IN  call' = IF call.pc = "sessionA"
                 THEN [call EXCEPT !.pc = "queued", !.headers = h]
                 ELSE dispatchRequest(call, h)
  /\ UNCHANGED << hooks, config, req, tokCall >>

\* the transport answers 200, 400 or 500
headersAnswered(st) ==
  /\ call.op = "headers" /\ call.pc = "sent"
  /\ call' =
       IF IsSuccess(st) THEN [call EXCEPT !.pc = "done", !.outcome = "success"]
       ELSE IF ShouldRetry(st, call.retryCount, config.maxRetries)
       THEN [call EXCEPT !.pc = "retryWait", !.retryCount = @ + 1]
       ELSE [call EXCEPT !.pc = "done", !.outcome = "ApiError"]
  /\ UNCHANGED << hooks, config, currentToken, req, tokCall, cleared >>

NextHeaders ==
  \/ \E s \in {"public", "private"} : requestHeaders(s)
  \/ \E f \in Edits : handOver(f)
  \/ \E res \in SessionResults : sessionAnswers(res)
  \/ \E st \in {200, 400, 500} : headersAnswered(st)
  \/ \E t \in Tokens : setToken(t)
  \/ clearToken

SpecHeaders == InitHeaders /\ [][NextHeaders]_vars

(* ------------------------------ claims -------------------------------- *)

\* the entry of the service the caller named has enableAuth set
NamedAuth(rec) ==
  LET e == ServiceEntry(config.services, rec.service)
  IN  e # << >> /\ Truthy(e[1].enableAuth)

\* the step hands request r to the transport
Dispatched(r) == req'[r].pc = "sent" /\ req'[r] # req[r]

\* C1: a request is handed to the transport with an Authorization header
\* only if global auth is enabled, the service the caller named has
\* enableAuth set and the header is the Bearer form of a token; a request to
\* a service without enableAuth never carries the header.
C1_AuthHeaderOnlyWhenEligible ==
  [][ \A r \in DOMAIN req :
        (Dispatched(r) /\ req'[r].Authorization # Absent)
          => /\ config.enableAuth
             /\ NamedAuth(req'[r])
             /\ \E t \in Tokens : req'[r].Authorization = Bearer(t) ]_vars

\* the transport's last answer to the request was one of `sts`
Answered(rec, sts) == rec.lastStatus # << >> /\ rec.lastStatus[1] \in sts

ServerErrors == { st \in Statuses : st >= 500 }

\* a 4xx other than 401, or no response at all
ClientOrNetwork == { st \in Statuses : st = 0 \/ (st >= 400 /\ st < 500 /\ st # 401) }

\* the request settled on what the transport answered
SettledByTransport(rec) ==
  rec.pc = "done" /\ rec.outcome \in {"ApiError", "RawTransportError"}

\* C2: once the transport answered 401 the request is never dispatched
\* again, signOut was invoked exactly once, and the caller receives an
\* AuthenticationError with status 401 and code AUTHENTICATION_ERROR.
C2_Unauthorized ==
  \A r \in DOMAIN req :
    Answered(req[r], {401})
      => /\ req[r].pc \in {"signOut", "done"}
         /\ req[r].signOuts = 1
         /\ req[r].pc = "done"
              => /\ req[r].outcome = "AuthenticationError"
                 /\ req[r].error = [status |-> 401, code |-> "AUTHENTICATION_ERROR"]

\* C3: a request that the transport answered 5xx on every attempt (it
\* settled on a 5xx answer), with maxRetries untouched meanwhile, made
\* exactly maxRetries + 1 transport invocations and ends in an ApiError.
C3_ExhaustedRetries ==
  \A r \in DOMAIN req :
    ( /\ SettledByTransport(req[r])
      /\ Answered(req[r], ServerErrors)
      /\ req[r].maxRetries0 = config.maxRetries )
      => /\ req[r].attempts = config.maxRetries + 1
         /\ req[r].outcome = "ApiError"

\* C4: a 5xx answer does not end a request whose retry budget is not used
\* up (maxRetries untouched meanwhile), and a request that succeeds after N
\* retried 5xx answers made exactly N + 1 transport invocations.
C4_SucceedsAfterRetries ==
  \A r \in DOMAIN req :
    /\ ( /\ SettledByTransport(req[r])
         /\ Answered(req[r], ServerErrors)
         /\ req[r].maxRetries0 = config.maxRetries )
         => req[r].retryCount = config.maxRetries
    /\ (req[r].pc = "done" /\ req[r].outcome = "success")
         => /\ Answered(req[r], {st \in Statuses : IsSuccess(st)})
            /\ req[r].retryCount <= req[r].maxRetries0
            /\ req[r].attempts = req[r].retryCount + 1

Max(a, b) == IF a >= b THEN a ELSE b

\* C5: the retry counter starts at 0, a step raises it by at most one and
\* never lowers it, and it never exceeds maxRetries (the value in force when
\* the request was issued or the one now in force, whichever is larger),
\* whatever else happens meanwhile.
C5_RetryCounterBounded ==
  /\ [][ \A r \in DOMAIN req :
           \/ req'[r].retryCount = req[r].retryCount
           \/ req'[r].retryCount = req[r].retryCount + 1 /\ req[r].pc = "sent"
           \/ req'[r].retryCount = 0 /\ req[r].pc \in {"idle", "done"} ]_vars
  /\ [](\A r \in DOMAIN req :
          req[r].retryCount <= Max(config.maxRetries, req[r].maxRetries0))

\* C6: a 4xx answer other than 401, or a failure without a response, ends
\* the request at once: no further transport invocation and the caller
\* receives an ApiError.
C6_ClientErrorsNotRetried ==
  \A r \in DOMAIN req :
    Answered(req[r], ClientOrNetwork)
      => /\ req[r].pc = "done"
         /\ req[r].attempts = req[r].retryCount + 1
         /\ req[r].outcome = "ApiError"

\* C7: on an instance whose constructor installed the hooks, onRequestError
\* was invoked exactly once for a request that reached the transport and
\* ended in a failure, whatever the failure, and never for a request in
\* flight (a retried 5xx included), a success or a service-not-found
\* failure.
C7_OnRequestErrorOncePerFailure ==
  hooks =>
    \A r \in DOMAIN req :
      /\ req[r].pc # "done" => req[r].errCalls = 0
      /\ (req[r].pc = "done" /\ req[r].outcome \in {"success", "ServiceNotFound"})
           => req[r].errCalls = 0
      /\ ( /\ req[r].pc = "done"
           /\ req[r].outcome \in {"ApiError", "AuthenticationError"} )
           => req[r].errCalls = 1

\* C8: a request to a service with enableAuth set, issued while token t is
\* cached and global auth is enabled, both unchanged up to the dispatch, is
\* handed to the transport (on the first attempt and on every retry) with
\* Authorization equal to "Bearer " followed by t.
C8_BearerOfCachedToken ==
  \A r \in DOMAIN req :
    (req[r].pc = "sent" /\ req[r].sure # Null /\ NamedAuth(req[r]))
      => req[r].Authorization = "Bearer " \o req[r].sure

\* C8 witness: a retry of a request to the default service is at the
\* transport with the Bearer form of the token cached all along.
C8_Witness ==
  \E r \in DOMAIN req :
    /\ req[r].pc = "sent" /\ req[r].retryCount = 1
    /\ req[r].service = "private" /\ NamedAuth(req[r])
    /\ req[r].sure = "t2" /\ req[r].Authorization = "Bearer t2"

\* the provider answered without a token: no session, a session without a
\* credential, or a rejection
Tokenless(p) == p \in {"null", "nocred", "throw"}

\* the step delivers the provider's answer to request r
SessionAnswered(r) ==
  req[r].pc \in {"sessionA", "sessionB"} /\ req'[r].pc # req[r].pc

\* the step delivers the provider's answer to the direct getCurrentToken()
TokenCallAnswered == tokCall.pc = "fetching" /\ tokCall'.pc = "done"

TokenCallStarts == tokCall.pc \in {"idle", "done"} /\ tokCall' # tokCall

\* the step is a request() call for r
RequestStarts(r) == req[r].pc \in {"idle", "done"} /\ req'[r] # req[r]

\* C10 as stated: after clearToken() the next getCurrentToken call, and the
\* next request to a service with enableAuth set, invokes the session
\* provider.
C10_ClearForcesFetch ==
  [][ cleared =>
        /\ TokenCallStarts => tokCall'.pc = "fetching"
        /\ \A r \in DOMAIN req :
             (RequestStarts(r) /\ NamedAuth(req'[r])) => req'[r].pc = "sessionA"
    ]_vars

\* C10 amended: while global auth is enabled, after clearToken() and before
\* the cache is written again, the next getCurrentToken call and the next
\* request to a service with enableAuth set invoke the session provider,
\* and the token the provider answers is the one returned, cached and put in
\* the Authorization header.
C10_ClearForcesFetchWhenAuthEnabled ==
  /\ [](tokCall.afterClear => tokCall.pc = "fetching" \/ tokCall.provided # "none")
  /\ [][ /\ \A r \in DOMAIN req :
              (cleared /\ config.enableAuth /\ RequestStarts(r) /\ NamedAuth(req'[r]))
                => req'[r].pc = "sessionA"
         /\ (TokenCallAnswered /\ tokCall'.provided \in Tokens)
              => tokCall'.result = tokCall'.provided /\ currentToken' = tokCall'.provided
         /\ \A r \in DOMAIN req :
              (SessionAnswered(r) /\ req'[r].provided \in Tokens)
                => /\ req'[r].Authorization = "Bearer " \o req'[r].provided
                   /\ currentToken' = req'[r].provided
       ]_vars

\* C10 witness: a getCurrentToken() call made after clearToken() asked the
\* provider and returned and cached the token it answered.
C10_Witness ==
  /\ tokCall.pc = "done" /\ tokCall.afterClear
  /\ tokCall.provided = "t2" /\ tokCall.result = "t2" /\ currentToken = "t2"

\* the step makes request r call the session provider
ProviderAskedBy(r) ==
  req'[r].pc \in {"sessionA", "sessionB"} /\ req'[r].pc # req[r].pc

\* C11: while a token is cached and global auth is enabled, a
\* getCurrentToken() call returns the cached token at once without asking
\* the session provider; the provider is asked, by a direct call or by a
\* request, only when the cache is empty.
C11_CachedTokenServedWithoutProvider ==
  [][ /\ (TokenCallStarts /\ config.enableAuth /\ currentToken # "null")
           => /\ tokCall'.pc = "done"
              /\ tokCall'.result = currentToken
              /\ tokCall'.provided = "none"
      /\ (tokCall.pc # "fetching" /\ tokCall'.pc = "fetching")
           => currentToken = "null"
      /\ \A r \in DOMAIN req : ProviderAskedBy(r) => currentToken = "null"
    ]_vars

\* C11 witness: a direct call returned the token a session fetch of a
\* request had cached, and the provider was not asked by the call.
C11_Witness ==
  /\ config.enableAuth /\ ~cleared
  /\ tokCall.pc = "done" /\ tokCall.result = "t1" /\ tokCall.provided = "none"
  /\ currentToken = "t1"
  /\ \E r \in DOMAIN req : req[r].pc = "sent" /\ req[r].provided = "t1"

\* C12: a getCurrentToken() call made while global auth is disabled
\* resolves to null without asking the session provider, whatever the
\* cache holds; no step taken while auth is disabled starts a provider
\* call; and a request issued while auth is disabled, auth staying
\* disabled, is at the transport without an Authorization header.
C12_NoTokenWhileAuthDisabled ==
  /\ [][ /\ (TokenCallStarts /\ ~config.enableAuth)
              => /\ tokCall'.pc = "done"
                 /\ tokCall'.result = "null"
                 /\ tokCall'.provided = "none"
         /\ (tokCall.pc # "fetching" /\ tokCall'.pc = "fetching") => config.enableAuth
         /\ \A r \in DOMAIN req : ProviderAskedBy(r) => config.enableAuth
       ]_vars
  /\ [](\A r \in DOMAIN req :
          req[r].off => /\ req[r].Authorization = "absent"
                        /\ req[r].pc \notin {"sessionA", "sessionB"})

\* C12 witness: with auth disabled and a token put in the cache by
\* setToken, a direct call resolved to null without the provider and a
\* request to the auth service is at the transport without the header.
C12_Witness ==
  /\ ~config.enableAuth /\ currentToken = "t1"
  /\ tokCall.pc = "done" /\ tokCall.result = "null" /\ tokCall.provided = "none"
  /\ \E r \in DOMAIN req :
       /\ req[r].off /\ req[r].pc = "sent" /\ NamedAuth(req[r])
       /\ req[r].Authorization = "absent"

\* C13: a request naming a service that is no key of the service map fails
\* at once with an ApiError whose message is "Service '<name>' not found"
\* followed by " in configuration" and which has no status; the transport,
\* onRequest, onResponse, onRequestError and signOut are never invoked for
\* it and it is not retried.
C13_UnknownServiceFailsEarly ==
  [][ \A r \in DOMAIN req :
        (RequestStarts(r) /\ req'[r].service \notin Names(config.services))
          => /\ req'[r].pc = "done"
             /\ ErrorClass(req'[r].outcome) = "ApiError"
             /\ req'[r].message =
                  ("Service '" \o req'[r].service \o "' not found") \o " in configuration"
             /\ req'[r].error.status = 0
             /\ req'[r].attempts = 0 /\ req'[r].retryCount = 0
             /\ req'[r].errCalls = 0 /\ req'[r].signOuts = 0
             /\ req'[r].reqCalls = 0 /\ req'[r].respCalls = 0
    ]_vars

\* C13 witness: a request naming service_1 on an instance whose map has no
\* such entry was rejected before reaching the transport.
C13_Witness ==
  \E r \in DOMAIN req :
    /\ req[r].pc = "done" /\ req[r].service = "service_1"
    /\ "service_1" \notin Names(config.services)
    /\ req[r].message = "Service 'service_1' not found in configuration"
    /\ req[r].attempts = 0

\* C14: a constructor call with enableAuth true and no session provider, or
\* no sign-out handler, throws an Error with the message 'getSession and
\* signOut functions are required when enableAuth is true' and leaves no
\* instance; a call with enableAuth false and neither hook returns an
\* instance.
C14_ConstructorValidation ==
  call.state # "called" =>
    LET o == call.options
    IN  /\ (o.enableAuth = "true" /\ (~o.getSession \/ ~o.signOut))
             => /\ call.state = "threw"
                /\ call.message =
                     "getSession and signOut functions are required when enableAuth is true"
                /\ config.services = << >> /\ ~hooks
        /\ (o.enableAuth = "false" /\ ~o.getSession /\ ~o.signOut)
             => /\ call.state = "returned"
                /\ ~config.enableAuth
                /\ config.services # << >>

\* C14 witness: the call with enableAuth true and a session provider but no
\* sign-out handler threw.
C14_Witness ==
  /\ call.state = "threw"
  /\ call.options.enableAuth = "true"
  /\ call.options.getSession /\ ~call.options.signOut

\* C15: whenever the constructor returns an instance whose enableAuth is
\* true, set explicitly or taken from the default, the caller supplied both
\* the session provider and the sign-out handler.
C15_AuthInstanceHasHooks ==
  (call.state = "returned" /\ config.enableAuth)
    => call.options.getSession /\ call.options.signOut

\* C16: a request in flight keeps the retry bound in force when it was
\* issued, whatever updateConfig does meanwhile: on an instance with the
\* hooks its retry counter never exceeds that bound, and when it ends on a
\* 5xx it has used exactly that many retries.
C16_InFlightKeepsRetryBound ==
  hooks =>
    \A r \in DOMAIN req :
      /\ req[r].retryCount <= req[r].maxRetries0
      /\ (SettledByTransport(req[r]) /\ Answered(req[r], ServerErrors))
           => req[r].retryCount = req[r].maxRetries0

\* C17: with requests and getCurrentToken() calls racing on an empty cache
\* and no token written by the caller, the cache holds one token or none;
\* it changes only when a session fetch delivers a token, and every fetch
\* that delivers a token leaves that token in the cache (the last writer
\* wins); a request's Authorization header is only ever set to the Bearer
\* form of the cached token or of the token the provider just answered to
\* that request.
C17_ConcurrentFetches ==
  /\ [](/\ currentToken \in Tokens \cup {"null"}
        /\ \A r \in DOMAIN req :
             req[r].Authorization # "absent"
               => \E t \in Tokens : req[r].Authorization = "Bearer " \o t)
  /\ [][ /\ currentToken' # currentToken
              => \/ \E r \in DOMAIN req :
                      SessionAnswered(r) /\ req'[r].provided = currentToken'
                 \/ TokenCallAnswered /\ tokCall'.provided = currentToken'
         /\ \A r \in DOMAIN req :
              (SessionAnswered(r) /\ req'[r].provided \in Tokens)
                => currentToken' = req'[r].provided
         /\ (TokenCallAnswered /\ tokCall'.provided \in Tokens)
              => currentToken' = tokCall'.provided
         /\ \A r \in DOMAIN req :
              req'[r].Authorization \notin {"absent", req[r].Authorization}
                => \/ /\ currentToken \in Tokens
                      /\ req'[r].Authorization = "Bearer " \o currentToken
                   \/ /\ SessionAnswered(r) /\ req'[r].provided \in Tokens
                      /\ req'[r].Authorization = "Bearer " \o req'[r].provided
       ]_vars

\* C17 witness: two requests that both asked the provider are at the
\* transport, each with the token it was answered, and the cache holds the
\* one written last.
C17_Witness ==
  /\ req["r1"].pc = "sent" /\ req["r1"].provided = "t1"
  /\ req["r1"].Authorization = "Bearer t1"
  /\ req["r2"].pc = "sent" /\ req["r2"].provided = "t2"
  /\ req["r2"].Authorization = "Bearer t2"
  /\ currentToken = "t2"

\* the entry named n is in the map, at url u, with enableAuth a
HasEntry(services, n, u, a) ==
  \E i \in 1..Len(services) : services[i] = Svc(n, u, a)

\* C18: after construction and after any sequence of updateConfig,
\* updateAuthFunctions, setToken and clearToken calls, the service map has
\* a public and a private entry; while the caller has configured no
\* services, public is at the base url with enableAuth false and private
\* at the base url with enableAuth true.
C18_PublicAndPrivateAlwaysPresent ==
  /\ {"public", "private"} \subseteq Names(config.services)
  /\ call.options.services = << >>
       => /\ HasEntry(config.services, "public", config.baseUrl, "false")
          /\ HasEntry(config.services, "private", config.baseUrl, "true")

\* the response of the error under study, when it has one
Resp == call.error.response[1]

\* C19 as stated: the normalised error takes the message field of the
\* response body whenever the body has one, else the transport's message;
\* the response status when there is a response; the code field of the
\* body whenever it has one, else the transport's code.
C19_FieldsOfNormalizedError ==
  (call.op = "createApiError" /\ call.state = "returned") =>
    IF call.error.response = << >>
    THEN /\ call.result.message = call.error.message
         /\ call.result.code = call.error.code
    ELSE /\ call.result.status = Resp.status
         /\ call.result.message =
              IF Resp.message # "undefined" THEN Resp.message ELSE call.error.message
         /\ call.result.code =
              IF Resp.code # "undefined" THEN Resp.code ELSE call.error.code

\* C19 amended: the message (the code) is the body's field when that field
\* is present and not the empty string, otherwise the transport's; the
\* status is the response status when there is a response and absent
\* otherwise.
C19_FieldsOfNormalizedErrorNonEmpty ==
  (call.op = "createApiError" /\ call.state = "returned") =>
    IF call.error.response = << >>
    THEN /\ call.result.message = call.error.message
         /\ call.result.code = call.error.code
         /\ call.result.status = 0
    ELSE /\ call.result.status = Resp.status
         /\ call.result.message =
              IF Resp.message \notin {"undefined", ""} THEN Resp.message
              ELSE call.error.message
         /\ call.result.code =
              IF Resp.code \notin {"undefined", ""} THEN Resp.code
              ELSE call.error.code

\* C19 witness: a response whose body has a message but an empty code gave
\* an error with the body's message and the transport's code.
C19_Witness ==
  /\ call.op = "createApiError" /\ call.state = "returned"
  /\ call.error.response # << >>
  /\ Resp.message = "server says no" /\ Resp.code = ""
  /\ call.result = [message |-> "server says no", status |-> 500, code |-> "ERR_BAD_RESPONSE"]

\* the entries of ps whose value is not undefined, null or ''
Remaining(ps) ==
  SelectSeq(ps, LAMBDA e : e.value.t \in {"number", "boolean"}
                             \/ (e.value.t = "string" /\ Len(e.value.s) > 0))

\* "key=value" for one entry, the value written as String(value) with a
\* space as '+'
Pair(e) ==
  e.key \o "=" \o Str([ i \in 1..Len(e.value.s) |->
                          IF e.value.s[i] = " " THEN "+" ELSE e.value.s[i] ])

\* C20: the URL built is the trimmed endpoint followed, when some search
\* parameter has a value other than undefined, null and '', by '?' and the
\* "key=value" pairs of exactly those parameters (0 and false included, as
\* strings) in their order, joined by '&'; with no such parameter it is the
\* trimmed endpoint alone; and every parameter set with the same remaining
\* entries builds the same URL.
C20_BuildUrlFiltersEmptyValues ==
  (call.op = "buildUrl" /\ call.state = "returned") =>
    LET left == Remaining(call.params)
        n    == Len(left)
        RECURSIVE Joined(_)
        Joined(i) == IF i > n THEN ""
                     ELSE (IF i = 1 THEN "?" ELSE "&") \o Pair(left[i]) \o Joined(i + 1)
    IN  /\ call.result = Str(Trim(call.endpoint)) \o Joined(1)
        /\ left = << >> => call.result = Str(Trim(call.endpoint))
        /\ \A qs \in SearchParamsArgs :
             (call.given /\ Remaining(qs) = left)
               => buildUrl(call.endpoint, TRUE, qs) = call.result

\* C20 witness: {page: 1, limit: undefined, active: true, filter: ''} on
\* the endpoint ' /u' built '/u?page=1&active=true'.
C20_Witness ==
  /\ call.op = "buildUrl" /\ call.state = "returned"
  /\ call.endpoint = << " ", "/", "u" >>
  /\ Len(call.params) = 4
  /\ call.params[2].value.t = "undefined"
  /\ call.params[4].value = [t |-> "string", s |-> << >>]
  /\ call.result = "/u?page=1&active=true"

(* ---- C21 ---- *)

\* the last invocation recorded for the call
LastEvent == call.events[Len(call.events)]

\* C21: on a successful response the verb method resolves to the body of the
\* value the response interceptor returned: the body of the transport's
\* response when the interceptor returns that response (no value for a 204),
\* the body of the interceptor's own response otherwise
C21_ResolvesToInterceptedBody ==
  (call.op = "request" /\ call.outcome.kind = "resolved") =>
     /\ LastEvent.e = "onResponse" /\ LastEvent.status = 200
     /\ LastEvent.did \in {"same", "other"}
     /\ call.outcome.value = IF LastEvent.did = "same" THEN call.body ELSE Rebuilt

(* ---- C22 ---- *)

\* the positions in the record where onRequest threw
Thrown == { i \in DOMAIN call.events :
              call.events[i].e = "onRequest" /\ call.events[i].did = "threw" }

\* C22: if the request interceptor throws, the call is aborted: nothing is
\* invoked after it but the response interceptor (no transport, no retry, no
\* onRequestError) and the caller receives the exception it raised
C22_RequestInterceptorFailureAborts ==
  call.op = "request" =>
    \A i \in Thrown :
       /\ call.pc = "done"
       /\ call.outcome = [kind |-> "rejected", value |-> "onRequest"]
       /\ \A j \in DOMAIN call.events : j > i => call.events[j].e = "onResponse"

(* ---- C23 ---- *)

\* C23: getConfig returns a snapshot copy: a step that is not a write of the
\* caller into the snapshot leaves every value readable through it as it
\* was, and a write of the caller into the snapshot leaves the instance's
\* configuration as it was
C23_SnapshotIsolated ==
  [][ (call.op = "new" /\ call.snapshot # << >>) =>
        IF call'.writes # call.writes
        THEN config' = config
        ELSE Unshared(call.snapshot)' = Unshared(call.snapshot) ]_vars

(* ---- C24 ---- *)

\* an updateConfig call takes place in this step
UpdateConfigStep == call' # call /\ call'.op = "updateConfig"

\* C24 as stated: every key named in the partial takes the supplied value,
\* every other key and the token cache keep their values
C24_ShallowMerge ==
  [][ UpdateConfigStep =>
        /\ \A k \in DOMAIN config :
             config'[k] = IF k \in DOMAIN call'.partial THEN call'.partial[k] ELSE config[k]
        /\ currentToken' = currentToken ]_vars

\* the services map a call leaves behind when it names baseUrl: that of the
\* partial, else the one in place, with the url of its `private` and
\* `public` entries set to the new base url if it has a `private` entry
ServicesAfterBaseUrl(partial, before) ==
  LET m == IF "services" \in DOMAIN partial THEN partial.services ELSE before
  IN  [ i \in 1..Len(m) |->
          [ name       |-> m[i].name,
            enableAuth |-> m[i].enableAuth,
            url        |-> IF /\ m[i].name \in {"private", "public"}
                              /\ \E j \in 1..Len(m) : m[j].name = "private"
                           THEN partial.baseUrl ELSE m[i].url ] ]

\* C24: every key named in the partial takes the supplied value, every other
\* key and the token cache keep their values, except that a partial naming
\* baseUrl also sets the url of the `private` and `public` entries of the
\* resulting services map to the new base url when that map has a `private`
\* entry
C24_ShallowMergeButBaseUrl ==
  [][ UpdateConfigStep =>
        /\ \A k \in DOMAIN config :
             config'[k] =
               IF k = "services" /\ "baseUrl" \in DOMAIN call'.partial
               THEN ServicesAfterBaseUrl(call'.partial, config.services)
               ELSE IF k \in DOMAIN call'.partial THEN call'.partial[k] ELSE config[k]
        /\ currentToken' = currentToken ]_vars

\* a partial naming maxRetries and services only was merged into an instance
\* that holds a token, and the new services map lacks an entry of the old one
C24_Witness ==
  /\ call.op = "updateConfig"
  /\ DOMAIN call.partial = {"maxRetries", "services"}
  /\ config.services = call.partial.services
  /\ config.maxRetries = call.partial.maxRetries
  /\ "public" \notin Names(config.services)
  /\ currentToken \in Tokens

(* ---- C25 ---- *)

\* the keys of the configuration other than the two auth functions
OtherKeys == DOMAIN config \ {"getSession", "signOut"}

\* C25: updateAuthFunctions swaps the two functions independently (the one
\* passed replaces the one in place, the one omitted stays) and leaves the
\* token cache and the rest of the configuration alone; a session fetch and
\* a 401 that come next invoke the function then in place
C25_AuthFunctionsSwappedIndependently ==
  [][ /\ config' # config =>
           /\ config'.getSession = IF call'.auth[1] THEN Passed ELSE config.getSession
           /\ config'.signOut = IF call'.auth[2] THEN Passed ELSE config.signOut
           /\ \A k \in OtherKeys : config'[k] = config[k]
           /\ currentToken' = currentToken
      /\ (tokCall'.pc = "fetching" /\ tokCall.pc # "fetching") =>
           tokCall'.fn = config.getSession
      /\ (call'.pc = "signOut" /\ call.pc # "signOut") =>
           call'.events[Len(call'.events)] = Ev("signOut", config.signOut, -1, FALSE, "called")
    ]_vars

\* after updateAuthFunctions(getSession) alone on an instance that held a
\* token, a session fetch invoked the function passed and a 401 the sign-out
\* handler the instance was constructed with
C25_Witness ==
  /\ call.op = "request" /\ call.auth = << TRUE, FALSE >>
  /\ config.getSession = Passed /\ config.signOut = "user"
  /\ tokCall.pc = "done" /\ tokCall.fn = Passed /\ tokCall.provided \in Tokens
  /\ call.pc = "done" /\ call.outcome.value = "AuthenticationError"
  /\ \E i \in DOMAIN call.events : call.events[i] = Ev("signOut", "user", -1, FALSE, "returned")

(* ---- C26 ---- *)

\* the positions in the record where the transport answered
Answers == { i \in DOMAIN call.events : call.events[i].e = "answer" }

\* the call ended on the transport's answer at position i: nothing was
\* dispatched or raised after it
EndedOn(i) ==
  /\ call.pc = "done" /\ i \in Answers
  /\ \A j \in DOMAIN call.events : j > i => call.events[j].e \notin {"answer", "onRequest"}

\* the invocations recorded after position i
After(i) == SubSeq(call.events, i + 1, Len(call.events))

\* C26: a call that ends on a failure which is neither a 401 nor a retried
\* 5xx builds the normalized error, invokes onRequestError with it, runs the
\* response interceptor on the response (on a shell without one), in this
\* order, and rejects with the normalized error
C26_FinalFailureOrder ==
  call.op = "request" =>
    \A i \in Answers :
      (EndedOn(i) /\ call.events[i].status \in {0, 400, 500}) =>
         LET st == call.events[i].status
             a  == After(i)
         IN  /\ Len(a) = 3
             /\ a[1] = Ev("createApiError", "", st, FALSE, "returned")
             /\ a[2] = Ev("onRequestError", "ApiError", st, FALSE, "returned")
             /\ a[3].e = "onResponse" /\ a[3].status = st /\ a[3].shell = (st = 0)
             /\ call.outcome = [kind |-> "rejected", value |-> "ApiError"]

(* ---- C27 ---- *)

\* the record of the call ends with these invocations
EndsWith(evs) ==
  /\ Len(call.events) >= Len(evs)
  /\ SubSeq(call.events, Len(call.events) - Len(evs) + 1, Len(call.events)) = evs

\* C27: while signOut is pending the caller has observed nothing; once the
\* 401 branch has invoked signOut, the response interceptor runs only after
\* signOut has returned; and an AuthenticationError is delivered only after
\* signOut returned and the response interceptor then ran on the 401 response
C27_SignOutThenInterceptorThenError ==
  call.op = "request" =>
    /\ call.pc = "signOut" =>
         /\ call.outcome.kind = "none"
         /\ call.events[Len(call.events)].e = "signOut"
         /\ call.events[Len(call.events)].did = "called"
    /\ \A j \in DOMAIN call.events :
         (/\ call.events[j].e = "onResponse"
          /\ \E i \in 1..(j - 1) : call.events[i].e = "signOut") =>
            /\ j >= 3
            /\ call.events[j - 2].e = "signOut" /\ call.events[j - 2].did = "called"
            /\ call.events[j - 1].e = "signOut" /\ call.events[j - 1].did = "returned"
            /\ call.events[j].status = Unauthorized
    /\ call.outcome.value = "AuthenticationError" =>
         \E fn \in {"user", "default", Passed}, v \in {Constructed, Updated}, b \in Behaviours :
            EndsWith(<< Ev("signOut", fn, -1, FALSE, "called"),
                        Ev("signOut", fn, -1, FALSE, "returned"),
                        Ev("onResponse", v, Unauthorized, FALSE, b) >>)

\* a request answered 401 ended in an AuthenticationError
C27_Witness ==
  /\ call.op = "request" /\ call.pc = "done"
  /\ call.outcome = [kind |-> "rejected", value |-> "AuthenticationError"]
  /\ \E i \in DOMAIN call.events :
       call.events[i].e = "answer" /\ call.events[i].status = Unauthorized

(* ---- C28 ---- *)

\* the last error onRequest raised carries no config: the failure the
\* response error handler was given has no request context
NoContext == call.op = "request" /\ call.raised # << >> /\ ~call.raised[Len(call.raised)].config

\* what was recorded after onRequest threw for the last time
AfterLastThrow == After(CHOOSE i \in Thrown : \A j \in Thrown : j <= i)

\* the handling of a failure without context, but for the response the
\* interceptor is handed: the interceptor runs once, nothing else does, and
\* the caller receives the error as it was raised
NoContextHandling ==
  /\ call.pc = "done"
  /\ call.outcome = [kind |-> "rejected", value |-> "onRequest"]
  /\ Len(AfterLastThrow) = 1
  /\ AfterLastThrow[1].e = "onResponse"

\* C28 as stated: the interceptor is handed a synthesized shell with status 0
\* whatever status the failure carries
C28_NoContextShell ==
  NoContext =>
    /\ NoContextHandling
    /\ AfterLastThrow[1].shell /\ AfterLastThrow[1].status = 0

\* C28: a failure without request context runs the response interceptor once,
\* on the failure's own response when it carries one and on a synthesized
\* shell with status 0 otherwise, and is then rejected unchanged: no retry,
\* no sign-out, no normalization, no onRequestError
C28_NoContextResponseOrShell ==
  NoContext =>
    /\ NoContextHandling
    /\ LET st == call.raised[Len(call.raised)].status
       IN  /\ AfterLastThrow[1].status = st
           /\ AfterLastThrow[1].shell = (st = 0)

\* onRequest raised an error that has a 401 response and no config
C28_Witness ==
  /\ NoContext /\ call.pc = "done"
  /\ call.raised[Len(call.raised)].status = Unauthorized

(* ---- C29 ---- *)

\* the interceptors that threw during the call
Throwers ==
  { call.events[i].e : i \in { j \in DOMAIN call.events :
       \/ call.events[j].e = "onRequest" /\ call.events[j].did = "threw"
       \/ call.events[j].e = "onResponse" /\ call.events[j].did = "throw" } }

\* C29: an exception raised by a user interceptor, in the success path or in
\* a failure path, is what the caller receives: a call during which an
\* interceptor threw ends rejected with an interceptor's exception
C29_InterceptorExceptionsReRaised ==
  (call.op = "request" /\ call.pc = "done" /\ Throwers # {}) =>
     /\ call.outcome.kind = "rejected"
     /\ call.outcome.value \in Throwers

(* ---- C30 ---- *)

\* the interceptor invocations recorded so far
InterceptorEvents ==
  { i \in DOMAIN call.events : call.events[i].e \in {"onRequest", "onResponse"} }

EndpointOnly(n) ==
  /\ call.op = "new" /\ call.state = "returned"
  /\ \E i \in 1..Len(call.options.services) :
       /\ call.options.services[i].name = n
       /\ call.options.services[i].enableAuth = "undefined"

\* C31: an entry the caller supplies replaces the default of that name as a
\* whole: with `private` given an endpoint only, the instance's `private`
\* entry is the caller's (no enableAuth inherited) and a request to `private`
\* is at the transport without an Authorization header, token cached or not
C31_EntryReplacedAsAWhole ==
  EndpointOnly("private") =>
    /\ \A i \in 1..Len(call.options.services) :
         ServiceEntry(config.services, call.options.services[i].name)
           = << call.options.services[i] >>
    /\ \A r \in DOMAIN req :
         (req[r].pc = "sent" /\ req[r].service = "private")
            => req[r].Authorization = Absent

(* ---- C32 ---- *)

\* the step runs the request hook on request r
HookRuns(r) ==
  /\ hooks
  /\ req[r].pc \in {"queued", "retryWait"}
  /\ req'[r].pc \in {"sent", "sessionB"}

\* the auth decision of the hook: the entry found for the request's base URL
\* has enableAuth set
HookAuth(rec) ==
  LET svc == getServiceByUrl(config.services, rec.baseURL)
  IN  svc # << >> /\ Truthy(svc[1].enableAuth)

\* C32: whenever the request hook runs, the entry it finds by reverse lookup
\* of the endpoint has the enableAuth flag of the service the caller named
C32_ReverseLookupAgrees ==
  [][ \A r \in DOMAIN req : HookRuns(r) => (HookAuth(req[r]) = NamedAuth(req[r])) ]_vars

(* ---- C33 ---- *)

NoRequestYet == \A r \in DOMAIN req : req[r].pc = "idle"

\* the direct getCurrentToken() was never called
NoTokenCallYet == tokCall.pc = "idle"

\* C34: a session fetch that began before setToken(v) or clearToken() does
\* not write the cache after that call has returned.  A fetch begins only on
\* an empty cache, so a token found in the cache while the only fetch is
\* still in flight was put there by setToken since the fetch began, and a
\* cache marked cleared during a fetch that did not start on a cleared cache
\* was emptied by clearToken since it began: in both cases the step that
\* delivers the provider's answer leaves the cache as that call left it.
C34_StaleFetchDoesNotWriteCache ==
  [][ /\ ( /\ TokenCallAnswered
           /\ \/ cleared /\ ~tokCall.afterClear
              \/ currentToken # Null /\ NoRequestYet )
         => currentToken' = currentToken
      /\ \A r \in DOMAIN req :
           ( SessionAnswered(r) /\ currentToken # Null /\ NoTokenCallYet )
             => currentToken' = currentToken ]_vars

\* the step is part of the handling of a 401 for request r: the response
\* hook receives the 401 and calls signOut, or the awaited signOut settles
Handles401(r) ==
  \/ req[r].pc = "sent" /\ req'[r].pc = "signOut"
  \/ req[r].pc = "signOut" /\ req'[r].pc = "done"

\* C35: handling a 401 leaves the token cache unchanged: neither the step
\* that receives the 401 and calls signOut nor the one that delivers the
\* AuthenticationError touches the cache, and the request issued next in
\* that slot to a service with auth enabled takes the cached token as its
\* Authorization header without a call to the session provider.
C35_UnauthorizedKeepsTokenCache ==
  [][ \A r \in DOMAIN req :
        /\ Handles401(r) => currentToken' = currentToken /\ cleared' = cleared
        /\ ( /\ req[r].outcome = "AuthenticationError" /\ RequestStarts(r)
             /\ NamedAuth(req'[r]) /\ config.enableAuth /\ currentToken # Null )
           => /\ req'[r].pc = "queued"
              /\ req'[r].Authorization = Bearer(currentToken)
              /\ currentToken' = currentToken ]_vars

\* a 401 was handled to its end while a token was cached: the caller holds
\* the AuthenticationError and the cache still holds the token the request
\* was sent with
C35_Witness ==
  \E r \in DOMAIN req :
    /\ req[r].pc = "done" /\ req[r].outcome = "AuthenticationError"
    /\ req[r].lastStatus = << 401 >> /\ req[r].signOuts = 1
    /\ currentToken # Null /\ req[r].Authorization = Bearer(currentToken)

\* the positions in the record where the response interceptor was invoked
ResponseInterceptions == { i \in DOMAIN call.events : call.events[i].e = "onResponse" }

\* C36: on an instance with the hooks installed the response interceptor is
\* invoked exactly once over the whole life of a request, whatever its
\* outcome: never while the request is in flight (so not for a 5xx that is
\* retried), and once by the time the caller's promise settles.
C36_ResponseInterceptorExactlyOnce ==
  (hooks /\ call.op = "request") =>
    Cardinality(ResponseInterceptions) = IF call.pc = "done" THEN 1 ELSE 0

SignOutRejections ==
  { i \in DOMAIN call.events :
      call.events[i].e = "signOut" /\ call.events[i].did = "threw" }

\* C38: when signOut rejects while a 401 is handled, the handler ends there:
\* the caller's promise is rejected with signOut's error and not with the
\* AuthenticationError, the response interceptor was not run for the request
\* and nothing is dispatched afterwards.
C38_SignOutRejectionPropagates ==
  (call.op = "request" /\ SignOutRejections # {}) =>
    /\ SignOutRejections = { Len(call.events) }
    /\ call.pc = "done"
    /\ call.outcome = [kind |-> "rejected", value |-> "signOut"]
    /\ ResponseInterceptions = {}

\* a 401 answered by the transport after a retried 500, signOut called and
\* rejecting
C38_Witness ==
  /\ call.op = "request" /\ hooks /\ SignOutRejections # {}
  /\ call.retryCount = 1
  /\ \E i \in Answers : call.events[i].status = Unauthorized

\* the re-dispatches of the call so far: the request hook runs once when the
\* verb method hands the request over and once per this.axiosInstance(..)
\* of the retry branch
Redispatches ==
  LET ran == { i \in DOMAIN call.events : call.events[i].e = "onRequest" }
  IN  IF ran = {} THEN 0 ELSE Cardinality(ran) - 1

\* the request ends for its caller
EventuallySettles == (call.pc # "idle") ~> (call.pc = "done")

\* the request is re-dispatched at most maxRetries times
RedispatchesBounded == call.op = "request" => Redispatches <= config.maxRetries

\* C39: when every collaborator call settles and the retry wait elapses,
\* every request ends for its caller, resolved or rejected, after at most
\* maxRetries re-dispatches
C39_SettlesWithinMaxRetries == EventuallySettles /\ []RedispatchesBounded

====
